---- MODULE Spec2Model ----
(***************************************************************************)
(* Model of regtests/client/python/cli/command/catalogs.py:                *)
(* CatalogsCommand, the handler of `polaris catalogs <subcommand>`.        *)
(* One behaviour is one invocation: the command object is constructed      *)
(* from the resolved options, validate() is called, and execute(api) is    *)
(* called when validate() raised nothing.  Every remote call of execute    *)
(* either returns or raises.                                               *)
(***************************************************************************)
EXTENDS Integers, Sequences, FiniteSets, TLC

VARIABLES opts, pc, err, calls, catalog, printed, built

vars == <<opts, pc, err, calls, catalog, printed, built>>

----------------------------------------------------------------------------
(* Bounds of the model *)

MaxLocations == 1
MaxVersion == 2
MaxListed == 1
MaxBuilds == 2

----------------------------------------------------------------------------
(* cli.constants: Subcommands, CatalogType, StorageType *)

CREATE == "create"
DELETE == "delete"
GET == "get"
LIST == "list"
UPDATE == "update"

INTERNAL == "internal"
EXTERNAL == "external"

S3 == "s3"
AZURE == "azure"
GCS == "gcs"

(* Python's None / the empty string: both are falsy in the `not x` tests *)
Unset == ""

(* str.upper() on the strings the handler upper-cases *)
Upper(s) ==
    CASE s = "s3" -> "S3"
      [] s = "azure" -> "AZURE"
      [] s = "gcs" -> "GCS"
      [] s = "file" -> "FILE"
      [] s = "internal" -> "INTERNAL"
      [] s = "external" -> "EXTERNAL"
      [] OTHER -> s

----------------------------------------------------------------------------
(* Dict[str, StrictStr] *)

EmptyMap == [k \in {} |-> ""]

DefaultBaseLocationKey == "default-base-location"

(* {**base, **over} *)
DictMerge(base, over) ==
    [k \in (DOMAIN base) \cup (DOMAIN over) |->
        IF k \in DOMAIN over THEN over[k] ELSE base[k]]

----------------------------------------------------------------------------
(* The inputs of an invocation *)

SubcommandValues == {CREATE, DELETE, GET, LIST, UPDATE, "grant"}
CatalogTypeValues == {INTERNAL, EXTERNAL}
StorageTypeValues == {Unset, S3, AZURE, GCS, "file"}

LocationValues == {"s3://b/l"}

RECURSIVE SeqsUpTo(_, _)
SeqsUpTo(S, n) ==
    IF n = 0 THEN {<<>>}
    ELSE LET shorter == SeqsUpTo(S, n - 1)
         IN shorter \cup {Append(s, x) : s \in {t \in shorter : Len(t) = n - 1}, x \in S}

PropertiesValues ==
    { EmptyMap,
      [k \in {"b"} |-> "2"],
      [k \in {DefaultBaseLocationKey, "b"} |->
          IF k = "b" THEN "2" ELSE "loc2"] }

OptionsValues ==
    [ catalogs_subcommand : SubcommandValues,
      catalog_type : CatalogTypeValues,
      remote_url : {Unset, "https://x"},
      default_base_location : {Unset, "loc"},
      storage_type : StorageTypeValues,
      allowed_locations : SeqsUpTo(LocationValues, MaxLocations),
      role_arn : {Unset, "arn:aws:iam::1:role/r"},
      external_id : {Unset, "ext-id"},
      user_arn : {Unset, "arn:aws:iam::1:user/u"},
      tenant_id : {Unset, "tenant"},
      multi_tenant_app_name : {Unset, "app"},
      consent_url : {Unset, "https://consent"},
      service_account : {Unset, "sa@gcp"},
      catalog_name : {"c1"},
      properties : PropertiesValues ]

(* What the remote service may hold under a name *)
ServerCatalogs(name) ==
    [ name : {name},
      type : {"INTERNAL"},
      properties : {EmptyMap, [k \in {"a"} |-> "1"]},
      entity_version : 1..MaxVersion ]

NoCatalog == [name |-> Unset]
NoConfig == [kind |-> "None"]
NoError == ""

----------------------------------------------------------------------------
(* CatalogsCommand helpers *)

_has_aws_storage_info(o) ==
    o.role_arn # Unset \/ o.external_id # Unset \/ o.user_arn # Unset

_has_azure_storage_info(o) ==
    o.tenant_id # Unset \/ o.multi_tenant_app_name # Unset \/ o.consent_url # Unset

_has_gcs_storage_info(o) ==
    o.service_account # Unset

(* validate(), the CREATE block *)
validate_create_NoBaseLocationCheck(o) ==
    IF o.catalogs_subcommand = CREATE
    THEN IF o.storage_type = Unset
         THEN "Missing required argument: --storage-type"
         ELSE IF o.catalog_type = EXTERNAL /\ o.remote_url = Unset
         THEN "Missing required argument for external catalog: --remote-url"
         ELSE NoError
    ELSE NoError

validate_create(o) ==
    IF o.catalogs_subcommand = CREATE
    THEN IF o.storage_type = Unset
         THEN "Missing required argument: --storage-type"
         ELSE IF o.default_base_location = Unset
         THEN "Missing required argument: --default-base-location"
         ELSE IF o.catalog_type = EXTERNAL /\ o.remote_url = Unset
         THEN "Missing required argument for " \o EXTERNAL \o " catalog: --remote-url"
         ELSE NoError
    ELSE NoError

(* validate(), the UPDATE block *)
validate_update(o) ==
    IF o.catalogs_subcommand = UPDATE
       /\ Len(o.allowed_locations) > 0
       /\ o.storage_type = Unset
    THEN "Missing required argument when updating allowed locations for a catalog: --storage-type"
    ELSE NoError

(* validate(), the storage-type cross-checks *)
validate_storage_S3IgnoresGcs(o) ==
    IF o.storage_type = S3
    THEN IF o.role_arn = Unset
         THEN "Missing required argument for storage type 's3': --role-arn"
         ELSE IF _has_azure_storage_info(o)
         THEN "Storage type 's3' supports the storage configurations --role-arn, --external-id, and --user-arn"
         ELSE NoError
    ELSE IF o.storage_type = AZURE
    THEN IF o.tenant_id = Unset
         THEN "Missing required argument for storage type 'azure': --tenant-id"
         ELSE IF _has_aws_storage_info(o) \/ _has_gcs_storage_info(o)
         THEN "Storage type 'azure' supports the storage configurations --tenant-id, --multi-tenant-app-name, and --consent-url"
         ELSE NoError
    ELSE IF _has_aws_storage_info(o) \/ _has_azure_storage_info(o)
    THEN "Storage type 'gcs' supports the storage configuration: --service-account"
    ELSE NoError

validate_storage_OnlyWhenTypeSet(o) ==
    IF o.storage_type = S3
    THEN IF o.role_arn = Unset
         THEN "Missing required argument for storage type 's3': --role-arn"
         ELSE IF _has_azure_storage_info(o) \/ _has_gcs_storage_info(o)
         THEN "Storage type 's3' supports the storage configurations --role-arn, --external-id, and --user-arn"
         ELSE NoError
    ELSE IF o.storage_type = AZURE
    THEN IF o.tenant_id = Unset
         THEN "Missing required argument for storage type 'azure': --tenant-id"
         ELSE IF _has_aws_storage_info(o) \/ _has_gcs_storage_info(o)
         THEN "Storage type 'azure' supports the storage configurations --tenant-id, --multi-tenant-app-name, and --consent-url"
         ELSE NoError
    ELSE IF o.storage_type # Unset
            /\ (_has_aws_storage_info(o) \/ _has_azure_storage_info(o))
    THEN "Storage type 'gcs' supports the storage configuration: --service-account"
    ELSE NoError

validate_storage(o) ==
    IF o.storage_type = S3
    THEN IF o.role_arn = Unset
         THEN "Missing required argument for storage type 's3': --role-arn"
         ELSE IF _has_azure_storage_info(o) \/ _has_gcs_storage_info(o)
         THEN "Storage type 's3' supports the storage configurations --role-arn, --external-id, and --user-arn"
         ELSE NoError
    ELSE IF o.storage_type = AZURE
    THEN IF o.tenant_id = Unset
         THEN "Missing required argument for storage type 'azure': --tenant-id"
         ELSE IF _has_aws_storage_info(o) \/ _has_gcs_storage_info(o)
         THEN "Storage type 'azure' supports the storage configurations --tenant-id, --multi-tenant-app-name, and --consent-url"
         ELSE NoError
    ELSE IF _has_aws_storage_info(o) \/ _has_azure_storage_info(o)
    THEN "Storage type 'gcs' supports the storage configuration: --service-account"
    ELSE NoError

(* validate(): the message of the exception it raises, NoError if none. *)
(* The blocks run in source order and the first raise ends the call.    *)
validate_StorageChecksFirst(o) ==
    IF validate_storage(o) # NoError THEN validate_storage(o)
    ELSE IF validate_create(o) # NoError THEN validate_create(o)
    ELSE validate_update(o)

validate(o) ==
    IF validate_create(o) # NoError THEN validate_create(o)
    ELSE IF validate_update(o) # NoError THEN validate_update(o)
    ELSE validate_storage(o)

_build_storage_config_info_AzureDropsConsentUrl(o) ==
    IF o.storage_type = S3
    THEN [ kind |-> "AwsStorageConfigInfo",
           storage_type |-> Upper(o.storage_type),
           allowed_locations |-> o.allowed_locations,
           role_arn |-> o.role_arn,
           external_id |-> o.external_id,
           user_arn |-> o.user_arn ]
    ELSE IF o.storage_type = AZURE
    THEN [ kind |-> "AzureStorageConfigInfo",
           storage_type |-> Upper(o.storage_type),
           allowed_locations |-> o.allowed_locations,
           tenant_id |-> o.tenant_id,
           multi_tenant_app_name |-> o.multi_tenant_app_name,
           consent_url |-> Unset ]
    ELSE IF o.storage_type = GCS
    THEN [ kind |-> "GcpStorageConfigInfo",
           storage_type |-> Upper(o.storage_type),
           allowed_locations |-> o.allowed_locations,
           tenant_id |-> o.tenant_id,
           multi_tenant_app_name |-> o.multi_tenant_app_name ]
    ELSE NoConfig

_build_storage_config_info_GcsSendsServiceAccount(o) ==
    IF o.storage_type = S3
    THEN [ kind |-> "AwsStorageConfigInfo",
           storage_type |-> Upper(o.storage_type),
           allowed_locations |-> o.allowed_locations,
           role_arn |-> o.role_arn,
           external_id |-> o.external_id,
           user_arn |-> o.user_arn ]
    ELSE IF o.storage_type = AZURE
    THEN [ kind |-> "AzureStorageConfigInfo",
           storage_type |-> Upper(o.storage_type),
           allowed_locations |-> o.allowed_locations,
           tenant_id |-> o.tenant_id,
           multi_tenant_app_name |-> o.multi_tenant_app_name,
           consent_url |-> o.consent_url ]
    ELSE IF o.storage_type = GCS
    THEN [ kind |-> "GcpStorageConfigInfo",
           storage_type |-> Upper(o.storage_type),
           allowed_locations |-> o.allowed_locations,
           tenant_id |-> o.service_account,
           multi_tenant_app_name |-> o.multi_tenant_app_name ]
    ELSE NoConfig

_build_storage_config_info(o) ==
    IF o.storage_type = S3
    THEN [ kind |-> "AwsStorageConfigInfo",
           storage_type |-> Upper(o.storage_type),
           allowed_locations |-> o.allowed_locations,
           role_arn |-> o.role_arn,
           external_id |-> o.external_id,
           user_arn |-> o.user_arn ]
    ELSE IF o.storage_type = AZURE
    THEN [ kind |-> "AzureStorageConfigInfo",
           storage_type |-> Upper(o.storage_type),
           allowed_locations |-> o.allowed_locations,
           tenant_id |-> o.tenant_id,
           multi_tenant_app_name |-> o.multi_tenant_app_name,
           consent_url |-> o.consent_url ]
    ELSE IF o.storage_type = GCS
    THEN [ kind |-> "GcpStorageConfigInfo",
           storage_type |-> Upper(o.storage_type),
           allowed_locations |-> o.allowed_locations,
           tenant_id |-> o.tenant_id,
           multi_tenant_app_name |-> o.multi_tenant_app_name ]
    ELSE NoConfig

CreateCatalogRequest_AlwaysInternal(o) ==
    [ kind |-> "PolarisCatalog",
      type |-> Upper(o.catalog_type),
      name |-> o.catalog_name,
      storage_config_info |-> _build_storage_config_info(o),
      properties |-> [ default_base_location |-> o.default_base_location,
                       additional_properties |-> o.properties ] ]

(* execute(), CREATE branch: the CreateCatalogRequest *)
CreateCatalogRequest(o) ==
    IF o.catalog_type = EXTERNAL
    THEN [ kind |-> "ExternalCatalog",
           type |-> Upper(o.catalog_type),
           name |-> o.catalog_name,
           storage_config_info |-> _build_storage_config_info(o),
           remote_url |-> o.remote_url,
           properties |-> [ default_base_location |-> o.default_base_location,
                            additional_properties |-> o.properties ] ]
    ELSE [ kind |-> "PolarisCatalog",
           type |-> Upper(o.catalog_type),
           name |-> o.catalog_name,
           storage_config_info |-> _build_storage_config_info(o),
           properties |-> [ default_base_location |-> o.default_base_location,
                            additional_properties |-> o.properties ] ]

UpdatedProperties_KeepsFetched(o, c) ==
    LET default_base_location_properties ==
            IF o.default_base_location # Unset
            THEN [k \in {DefaultBaseLocationKey} |-> o.default_base_location]
            ELSE EmptyMap
    IN DictMerge(c.properties, DictMerge(default_base_location_properties, o.properties))

(* execute(), UPDATE branch: the properties assigned to the fetched catalog *)
UpdatedProperties(o, c) ==
    LET default_base_location_properties ==
            IF o.default_base_location # Unset
            THEN [k \in {DefaultBaseLocationKey} |-> o.default_base_location]
            ELSE EmptyMap
    IN DictMerge(default_base_location_properties, o.properties)

(* execute(), UPDATE branch: the UpdateCatalogRequest; a request built *)
(* without storage_config_info has the field at its default, None      *)
UpdateCatalogRequest(o, c) ==
    LET updated == [c EXCEPT !.properties = UpdatedProperties(o, c)]
    IN IF Len(o.allowed_locations) > 0 \/ _has_aws_storage_info(o)
          \/ _has_azure_storage_info(o) \/ _has_gcs_storage_info(o)
       THEN [ current_entity_version |-> updated.entity_version,
              catalog |-> updated,
              storage_config_info |-> _build_storage_config_info(o) ]
       ELSE [ current_entity_version |-> updated.entity_version,
              catalog |-> updated,
              storage_config_info |-> NoConfig ]

(* Catalog.to_json(): the serialized form carries every field of the catalog *)
ToJson(c) == <<"json", c.name, c.type, c.entity_version, c.properties>>

RemoteError(op) == "RemoteServiceError: " \o op

Unsupported(o) == o.catalogs_subcommand \o " is not supported in the CLI"

Call(op, name, request, ok) ==
    [op |-> op, name |-> name, request |-> request, ok |-> ok]

NoRequest == [kind |-> "None"]

----------------------------------------------------------------------------
(* The invocation *)

Init ==
    /\ opts \in OptionsValues
    /\ pc = "constructed"
    /\ err = NoError
    /\ calls = <<>>
    /\ catalog = NoCatalog
    /\ printed = <<>>
    /\ built = <<>>

Validate ==
    /\ pc = "constructed"
    /\ err' = validate(opts)
    /\ pc' = IF validate(opts) = NoError THEN "validated" ELSE "rejected"
    /\ UNCHANGED <<opts, calls, catalog, printed, built>>

ExecuteCreate ==
    /\ pc = "validated"
    /\ opts.catalogs_subcommand = CREATE
    /\ \E ok \in BOOLEAN :
        /\ calls' = Append(calls, Call("createCatalog", opts.catalog_name,
                                       CreateCatalogRequest(opts), ok))
        /\ pc' = IF ok THEN "done" ELSE "failed"
        /\ err' = IF ok THEN NoError ELSE RemoteError("createCatalog")
    /\ UNCHANGED <<opts, catalog, printed, built>>

ExecuteDelete ==
    /\ pc = "validated"
    /\ opts.catalogs_subcommand = DELETE
    /\ \E ok \in BOOLEAN :
        /\ calls' = Append(calls, Call("deleteCatalog", opts.catalog_name, NoRequest, ok))
        /\ pc' = IF ok THEN "done" ELSE "failed"
        /\ err' = IF ok THEN NoError ELSE RemoteError("deleteCatalog")
    /\ UNCHANGED <<opts, catalog, printed, built>>

ExecuteGet ==
    /\ pc = "validated"
    /\ opts.catalogs_subcommand = GET
    /\ \/ /\ \E c \in ServerCatalogs(opts.catalog_name) :
                printed' = Append(printed, ToJson(c))
          /\ calls' = Append(calls, Call("getCatalog", opts.catalog_name, NoRequest, TRUE))
          /\ pc' = "done"
          /\ err' = NoError
       \/ /\ calls' = Append(calls, Call("getCatalog", opts.catalog_name, NoRequest, FALSE))
          /\ pc' = "failed"
          /\ err' = RemoteError("getCatalog")
          /\ UNCHANGED printed
    /\ UNCHANGED <<opts, catalog, built>>

ExecuteList ==
    /\ pc = "validated"
    /\ opts.catalogs_subcommand = LIST
    /\ \/ /\ \E cs \in SeqsUpTo(ServerCatalogs(opts.catalog_name), MaxListed) :
                printed' = printed \o [i \in 1..Len(cs) |-> ToJson(cs[i])]
          /\ calls' = Append(calls, Call("listCatalogs", Unset, NoRequest, TRUE))
          /\ pc' = "done"
          /\ err' = NoError
       \/ /\ calls' = Append(calls, Call("listCatalogs", Unset, NoRequest, FALSE))
          /\ pc' = "failed"
          /\ err' = RemoteError("listCatalogs")
          /\ UNCHANGED printed
    /\ UNCHANGED <<opts, catalog, built>>

ExecuteUpdateGet_SwallowsError ==
    /\ pc = "validated"
    /\ opts.catalogs_subcommand = UPDATE
    /\ \E ok \in BOOLEAN :
        /\ catalog' \in ServerCatalogs(opts.catalog_name)
        /\ calls' = Append(calls, Call("getCatalog", opts.catalog_name, NoRequest, ok))
        /\ pc' = "fetched"
        /\ err' = NoError
    /\ UNCHANGED <<opts, printed, built>>

(* execute(), UPDATE branch up to the return of api.get_catalog *)
ExecuteUpdateGet ==
    /\ pc = "validated"
    /\ opts.catalogs_subcommand = UPDATE
    /\ \/ /\ catalog' \in ServerCatalogs(opts.catalog_name)
          /\ calls' = Append(calls, Call("getCatalog", opts.catalog_name, NoRequest, TRUE))
          /\ pc' = "fetched"
          /\ err' = NoError
       \/ /\ calls' = Append(calls, Call("getCatalog", opts.catalog_name, NoRequest, FALSE))
          /\ pc' = "failed"
          /\ err' = RemoteError("getCatalog")
          /\ UNCHANGED catalog
    /\ UNCHANGED <<opts, printed, built>>

(* execute(), UPDATE branch from the return of api.get_catalog on *)
ExecuteUpdateSend ==
    /\ pc = "fetched"
    /\ \E ok \in BOOLEAN :
        /\ calls' = Append(calls, Call("updateCatalog", opts.catalog_name,
                                       UpdateCatalogRequest(opts, catalog), ok))
        /\ pc' = IF ok THEN "done" ELSE "failed"
        /\ err' = IF ok THEN NoError ELSE RemoteError("updateCatalog")
    /\ catalog' = [catalog EXCEPT !.properties = UpdatedProperties(opts, catalog)]
    /\ UNCHANGED <<opts, printed, built>>

ExecuteUnsupported ==
    /\ pc = "validated"
    /\ opts.catalogs_subcommand \notin {CREATE, DELETE, GET, LIST, UPDATE}
    /\ pc' = "failed"
    /\ err' = Unsupported(opts)
    /\ UNCHANGED <<opts, calls, catalog, printed, built>>

Next ==
    \/ Validate
    \/ ExecuteCreate
    \/ ExecuteDelete
    \/ ExecuteGet
    \/ ExecuteList
    \/ ExecuteUpdateGet
    \/ ExecuteUpdateSend
    \/ ExecuteUnsupported

Spec == Init /\ [][Next]_vars

----------------------------------------------------------------------------
(* The storage-config builder on its own: any constructed command object, *)
(* validated or not, may be asked for its storage config, repeatedly.     *)

BuildStorageConfig ==
    /\ Len(built) < MaxBuilds
    /\ built' = Append(built, _build_storage_config_info(opts))
    /\ UNCHANGED <<opts, pc, err, calls, catalog, printed>>

NextBuilder == BuildStorageConfig

SpecBuilder == Init /\ [][NextBuilder]_vars

----------------------------------------------------------------------------
(* Vocabulary of the properties *)

Validated == pc \in {"validated", "fetched", "done", "failed"}
Rejected == pc = "rejected"
Executed == pc \in {"done", "failed"}

PopulatedFamilies(o) ==
    (IF _has_aws_storage_info(o) THEN {"AWS"} ELSE {})
    \cup (IF _has_azure_storage_info(o) THEN {"AZURE"} ELSE {})
    \cup (IF _has_gcs_storage_info(o) THEN {"GCS"} ELSE {})

HasStorageOption(o) ==
    Len(o.allowed_locations) > 0 \/ PopulatedFamilies(o) # {}

OpsOf(cs) == [i \in 1..Len(cs) |-> cs[i].op]

IsPrefix(s, t) == Len(s) <= Len(t) /\ \A i \in 1..Len(s) : s[i] = t[i]

ExpectedOps(sub) ==
    CASE sub = CREATE -> <<"createCatalog">>
      [] sub = DELETE -> <<"deleteCatalog">>
      [] sub = GET -> <<"getCatalog">>
      [] sub = LIST -> <<"listCatalogs">>
      [] sub = UPDATE -> <<"getCatalog", "updateCatalog">>
      [] OTHER -> <<>>

MutatingOps == {"createCatalog", "deleteCatalog", "updateCatalog"}

----------------------------------------------------------------------------
(* C1: once validate has run on a CREATE, it has raised whenever            *)
(* storage_type is empty, or default_base_location is empty, or the catalog *)
(* type is EXTERNAL and remote_url is empty, whatever the other options.    *)
CreateRequiresOptions ==
    ( /\ pc # "constructed"
      /\ opts.catalogs_subcommand = CREATE
      /\ \/ opts.storage_type = Unset
         \/ opts.default_base_location = Unset
         \/ opts.catalog_type = EXTERNAL /\ opts.remote_url = Unset )
    => Rejected /\ err # NoError /\ calls = <<>>

(* A CREATE rejected for its missing default_base_location alone *)
CreateRequiresOptionsWitness ==
    /\ Rejected
    /\ opts.catalogs_subcommand = CREATE
    /\ opts.storage_type = S3
    /\ opts.role_arn # Unset
    /\ PopulatedFamilies(opts) = {"AWS"}
    /\ opts.default_base_location = Unset
    /\ opts.catalog_type = INTERNAL

(* C2: for every subcommand and storage_type, once validate has run it has  *)
(* raised whenever fields of two or more storage families are populated; so *)
(* when validate succeeded at most one family is populated.                 *)
FamiliesMutuallyExclusive ==
    /\ (pc # "constructed" /\ Cardinality(PopulatedFamilies(opts)) >= 2) => Rejected
    /\ (pc # "constructed" /\ opts.storage_type = S3
            /\ PopulatedFamilies(opts) \cap {"AZURE", "GCS"} # {}) => Rejected
    /\ (pc # "constructed" /\ opts.storage_type = AZURE
            /\ PopulatedFamilies(opts) \cap {"AWS", "GCS"} # {}) => Rejected
    /\ Validated => Cardinality(PopulatedFamilies(opts)) <= 1

(* S3 with its required role_arn and a GCS field, rejected on a GET *)
FamiliesMutuallyExclusiveWitness ==
    /\ Rejected
    /\ opts.catalogs_subcommand = GET
    /\ opts.storage_type = S3
    /\ opts.role_arn # Unset
    /\ PopulatedFamilies(opts) = {"AWS", "GCS"}

(* C3: the remote calls issued are a prefix of the sequence fixed by the    *)
(* subcommand; the whole sequence when no call failed; none before or       *)
(* during validate; none after a failed call; an unsupported subcommand     *)
(* issues none and fails; a mutating call is the last call.                 *)
CallsFollowSubcommand ==
    /\ IsPrefix(OpsOf(calls), ExpectedOps(opts.catalogs_subcommand))
    /\ pc \in {"constructed", "validated", "rejected"} => calls = <<>>
    /\ \A i \in 1..Len(calls) : ~calls[i].ok => (i = Len(calls) /\ pc = "failed")
    /\ \A i \in 1..Len(calls) : calls[i].op \in MutatingOps => i = Len(calls)
    /\ pc = "done" =>
          /\ OpsOf(calls) = ExpectedOps(opts.catalogs_subcommand)
          /\ \A i \in 1..Len(calls) : calls[i].ok
          /\ err = NoError
    /\ pc = "fetched" => OpsOf(calls) = <<"getCatalog">> /\ calls[1].ok
    /\ pc = "failed" =>
          IF ExpectedOps(opts.catalogs_subcommand) = <<>>
          THEN calls = <<>> /\ err = Unsupported(opts)
          ELSE calls # <<>> /\ ~calls[Len(calls)].ok
               /\ err = RemoteError(calls[Len(calls)].op)

(* An UPDATE whose getCatalog failed and that stopped there *)
CallsFollowSubcommandWitness ==
    /\ pc = "failed"
    /\ opts.catalogs_subcommand = UPDATE
    /\ OpsOf(calls) = <<"getCatalog">>
    /\ ~calls[1].ok

(* C4: the properties of the catalog sent by updateCatalog are the map      *)
(* {default-base-location: default_base_location} (empty when it is not     *)
(* provided) overlaid with options.properties; nothing of the fetched       *)
(* catalog's properties is carried over.                                    *)
UpdateSendsMergedProperties ==
    \A i \in 1..Len(calls) :
        calls[i].op = "updateCatalog" =>
            LET p == calls[i].request.catalog.properties
            IN /\ DOMAIN p = (DOMAIN opts.properties)
                     \cup (IF opts.default_base_location # Unset
                           THEN {DefaultBaseLocationKey} ELSE {})
               /\ \A k \in DOMAIN p :
                     p[k] = IF k \in DOMAIN opts.properties
                            THEN opts.properties[k]
                            ELSE opts.default_base_location
               /\ catalog.properties = p

(* The example: existing {a:1}, default_base_location=loc, properties       *)
(* {default-base-location: loc2, b: 2}                                      *)
UpdateSendsMergedPropertiesWitness ==
    /\ pc = "done"
    /\ opts.catalogs_subcommand = UPDATE
    /\ opts.default_base_location = "loc"
    /\ DOMAIN opts.properties = {DefaultBaseLocationKey, "b"}
    /\ Len(calls) = 2
    /\ calls[2].request.catalog.properties =
          [k \in {DefaultBaseLocationKey, "b"} |-> IF k = "b" THEN "2" ELSE "loc2"]
    /\ calls[2].request.current_entity_version = 2

(* C5: an UPDATE that passed validate sends a non-null Aws, Azure or Gcp    *)
(* storage config whenever allowed_locations is non-empty or a storage      *)
(* field is populated, and no storage config otherwise.                     *)
UpdateAttachesStorageConfig ==
    \A i \in 1..Len(calls) :
        calls[i].op = "updateCatalog" =>
            IF HasStorageOption(opts)
            THEN calls[i].request.storage_config_info.kind \in
                    {"AwsStorageConfigInfo", "AzureStorageConfigInfo", "GcpStorageConfigInfo"}
            ELSE calls[i].request.storage_config_info = NoConfig

(* C6: the builder maps storage_type and the options to the config: S3 to   *)
(* an AwsStorageConfigInfo of type S3 with allowed_locations, role_arn,     *)
(* external_id, user_arn; AZURE to an AzureStorageConfigInfo of type AZURE  *)
(* with allowed_locations, tenant_id, multi_tenant_app_name, consent_url;   *)
(* GCS to a GcpStorageConfigInfo of type GCS with allowed_locations,        *)
(* tenant_id, multi_tenant_app_name; anything else to null.  Two calls on   *)
(* the same options agree and the options are left as they were.            *)
BuiltConfigMatches(c, o) ==
    /\ o.storage_type = S3 =>
          /\ DOMAIN c = {"kind", "storage_type", "allowed_locations",
                         "role_arn", "external_id", "user_arn"}
          /\ c.kind = "AwsStorageConfigInfo"
          /\ c.storage_type = "S3"
          /\ c.allowed_locations = o.allowed_locations
          /\ c.role_arn = o.role_arn
          /\ c.external_id = o.external_id
          /\ c.user_arn = o.user_arn
    /\ o.storage_type = AZURE =>
          /\ DOMAIN c = {"kind", "storage_type", "allowed_locations",
                         "tenant_id", "multi_tenant_app_name", "consent_url"}
          /\ c.kind = "AzureStorageConfigInfo"
          /\ c.storage_type = "AZURE"
          /\ c.allowed_locations = o.allowed_locations
          /\ c.tenant_id = o.tenant_id
          /\ c.multi_tenant_app_name = o.multi_tenant_app_name
          /\ c.consent_url = o.consent_url
    /\ o.storage_type = GCS =>
          /\ DOMAIN c = {"kind", "storage_type", "allowed_locations",
                         "tenant_id", "multi_tenant_app_name"}
          /\ c.kind = "GcpStorageConfigInfo"
          /\ c.storage_type = "GCS"
          /\ c.allowed_locations = o.allowed_locations
          /\ c.tenant_id = o.tenant_id
          /\ c.multi_tenant_app_name = o.multi_tenant_app_name
    /\ o.storage_type \notin {S3, AZURE, GCS} => c = NoConfig

BuilderIsPureMapping ==
    /\ [](/\ \A i \in 1..Len(built) : BuiltConfigMatches(built[i], opts)
          /\ \A i, j \in 1..Len(built) : built[i] = built[j])
    /\ [][opts' = opts]_vars

(* Two builds on unvalidated AZURE options that carry every AZURE field *)
BuilderIsPureMappingWitness ==
    /\ Len(built) = 2
    /\ opts.storage_type = AZURE
    /\ opts.consent_url # Unset
    /\ opts.role_arn # Unset
    /\ Len(opts.allowed_locations) > 0
    /\ built[2].consent_url = opts.consent_url
    /\ built[2].kind = "AzureStorageConfigInfo"

(* C7: a CREATE that passed validate with storage_type S3, AZURE or GCS     *)
(* calls createCatalog exactly once; the request is an ExternalCatalog with *)
(* the options' remote_url exactly when catalog_type is EXTERNAL, else an   *)
(* internal catalog without remote_url; it carries catalog_name, the        *)
(* default_base_location plus the additional properties, and a non-null     *)
(* storage config of the variant of storage_type.                           *)
CreateSendsCatalog ==
    ( /\ Executed
      /\ opts.catalogs_subcommand = CREATE
      /\ opts.storage_type \in {S3, AZURE, GCS} )
    => /\ Len(calls) = 1
       /\ calls[1].op = "createCatalog"
       /\ LET r == calls[1].request
          IN /\ IF opts.catalog_type = EXTERNAL
                THEN /\ r.kind = "ExternalCatalog"
                     /\ "remote_url" \in DOMAIN r
                     /\ r.remote_url = opts.remote_url
                     /\ r.remote_url # Unset
                     /\ r.type = "EXTERNAL"
                ELSE /\ r.kind = "PolarisCatalog"
                     /\ "remote_url" \notin DOMAIN r
                     /\ r.type = "INTERNAL"
             /\ r.name = opts.catalog_name
             /\ r.properties.default_base_location = opts.default_base_location
             /\ r.properties.default_base_location # Unset
             /\ r.properties.additional_properties = opts.properties
             /\ r.storage_config_info # NoConfig
             /\ r.storage_config_info.kind =
                    CASE opts.storage_type = S3 -> "AwsStorageConfigInfo"
                      [] opts.storage_type = AZURE -> "AzureStorageConfigInfo"
                      [] opts.storage_type = GCS -> "GcpStorageConfigInfo"
             /\ opts.storage_type = S3 =>
                    /\ r.storage_config_info.role_arn = opts.role_arn
                    /\ r.storage_config_info.role_arn # Unset

(* The scenario: CREATE, EXTERNAL, s3, remote_url and role_arn given *)
CreateSendsCatalogWitness ==
    /\ pc = "done"
    /\ opts.catalogs_subcommand = CREATE
    /\ opts.catalog_type = EXTERNAL
    /\ opts.storage_type = S3
    /\ Len(calls) = 1
    /\ calls[1].request.kind = "ExternalCatalog"
    /\ calls[1].request.remote_url = "https://x"
    /\ calls[1].request.storage_config_info.role_arn = "arn:aws:iam::1:role/r"

(* C8: validate reports the error of the first failing rule in the order    *)
(* CREATE without storage_type, CREATE without default_base_location,       *)
(* CREATE EXTERNAL without remote_url, UPDATE with allowed_locations and no *)
(* storage_type, then the storage cross-checks with the missing required    *)
(* field of S3 and AZURE before the conflicting-family error.               *)
ValidationRules(o) ==
    << <<o.catalogs_subcommand = CREATE /\ o.storage_type = Unset,
         "Missing required argument: --storage-type">>,
       <<o.catalogs_subcommand = CREATE /\ o.default_base_location = Unset,
         "Missing required argument: --default-base-location">>,
       <<o.catalogs_subcommand = CREATE /\ o.catalog_type = EXTERNAL /\ o.remote_url = Unset,
         "Missing required argument for external catalog: --remote-url">>,
       <<o.catalogs_subcommand = UPDATE /\ o.allowed_locations # <<>> /\ o.storage_type = Unset,
         "Missing required argument when updating allowed locations for a catalog: --storage-type">>,
       <<o.storage_type = S3 /\ o.role_arn = Unset,
         "Missing required argument for storage type 's3': --role-arn">>,
       <<o.storage_type = S3 /\ PopulatedFamilies(o) \cap {"AZURE", "GCS"} # {},
         "Storage type 's3' supports the storage configurations --role-arn, --external-id, and --user-arn">>,
       <<o.storage_type = AZURE /\ o.tenant_id = Unset,
         "Missing required argument for storage type 'azure': --tenant-id">>,
       <<o.storage_type = AZURE /\ PopulatedFamilies(o) \cap {"AWS", "GCS"} # {},
         "Storage type 'azure' supports the storage configurations --tenant-id, --multi-tenant-app-name, and --consent-url">>,
       <<o.storage_type \notin {S3, AZURE} /\ PopulatedFamilies(o) \cap {"AWS", "AZURE"} # {},
         "Storage type 'gcs' supports the storage configuration: --service-account">> >>

FirstFailure(rules) ==
    LET failing == {i \in 1..Len(rules) : rules[i][1]}
    IN IF failing = {} THEN NoError
       ELSE rules[CHOOSE i \in failing : \A j \in failing : i <= j][2]

FirstFailingRuleReported ==
    pc \in {"validated", "rejected"} =>
        /\ err = FirstFailure(ValidationRules(opts))
        /\ (pc = "rejected") = (err # NoError)

(* A CREATE without storage_type but with AWS fields reports the missing    *)
(* --storage-type although the family rule fails too                        *)
FirstFailingRuleReportedWitness ==
    /\ Rejected
    /\ opts.catalogs_subcommand = CREATE
    /\ opts.storage_type = Unset
    /\ opts.role_arn # Unset
    /\ opts.tenant_id # Unset
    /\ err = "Missing required argument: --storage-type"

(* C9: the value of service_account appears in no request sent to the       *)
(* remote service, and when validate passed with storage_type GCS the       *)
(* GcpStorageConfigInfo sent has empty tenant_id and multi_tenant_app_name. *)
Range(f) == {f[x] : x \in DOMAIN f}

ConfigStrings(c) ==
    IF c = NoConfig THEN {}
    ELSE {c[f] : f \in (DOMAIN c) \ {"allowed_locations"}} \cup Range(c.allowed_locations)

RequestStrings(call) ==
    LET r == call.request
    IN {call.name} \cup
       (CASE call.op = "createCatalog" ->
                {r[f] : f \in (DOMAIN r) \ {"storage_config_info", "properties"}}
                \cup ConfigStrings(r.storage_config_info)
                \cup {r.properties.default_base_location}
                \cup DOMAIN r.properties.additional_properties
                \cup Range(r.properties.additional_properties)
          [] call.op = "updateCatalog" ->
                {r.catalog.name, r.catalog.type}
                \cup DOMAIN r.catalog.properties
                \cup Range(r.catalog.properties)
                \cup ConfigStrings(r.storage_config_info)
          [] OTHER -> {})

ConfigsOf(call) ==
    IF call.op \in {"createCatalog", "updateCatalog"}
    THEN {call.request.storage_config_info} ELSE {}

ServiceAccountNeverSent ==
    \A i \in 1..Len(calls) :
        /\ opts.service_account # Unset => opts.service_account \notin RequestStrings(calls[i])
        /\ opts.storage_type = GCS =>
              \A c \in ConfigsOf(calls[i]) :
                  /\ calls[i].op = "createCatalog" => c # NoConfig
                  /\ c # NoConfig =>
                        /\ c.kind = "GcpStorageConfigInfo"
                        /\ c.tenant_id = Unset
                        /\ c.multi_tenant_app_name = Unset

(* A GCS catalog created with a service account *)
ServiceAccountNeverSentWitness ==
    /\ pc = "done"
    /\ opts.catalogs_subcommand = CREATE
    /\ opts.storage_type = GCS
    /\ opts.service_account = "sa@gcp"
    /\ Len(calls) = 1
    /\ calls[1].request.storage_config_info.kind = "GcpStorageConfigInfo"

(* C10: with storage_type neither S3 nor AZURE, unset included, validate    *)
(* raises for every subcommand as soon as an AWS or an AZURE field is       *)
(* populated, with or without service_account, and no remote call is made;  *)
(* so a validated invocation without storage_type has no such field.        *)
ForeignFieldsRejected ==
    /\ ( /\ pc # "constructed"
         /\ opts.storage_type \notin {S3, AZURE}
         /\ PopulatedFamilies(opts) \cap {"AWS", "AZURE"} # {} )
       => (Rejected /\ err # NoError /\ calls = <<>>)
    /\ (Validated /\ opts.storage_type = Unset)
       => PopulatedFamilies(opts) \cap {"AWS", "AZURE"} = {}

(* An UPDATE that supplies only role_arn, without storage_type *)
ForeignFieldsRejectedWitness ==
    /\ Rejected
    /\ opts.catalogs_subcommand = UPDATE
    /\ opts.storage_type = Unset
    /\ PopulatedFamilies(opts) = {"AWS"}
    /\ opts.role_arn # Unset
    /\ opts.external_id = Unset
    /\ opts.user_arn = Unset
    /\ opts.allowed_locations = <<>>
    /\ calls = <<>>

====
